---- MODULE Spec2Model ----
(***************************************************************************)
(* Model of simulateHeatTransfer (solarSimulationPassiveLogic.js).         *)
(*                                                                         *)
(* Every value of the program is a JavaScript Number, i.e. an IEEE 754     *)
(* binary64 value.  A Number is modelled as a record                       *)
(*     [k |-> "num", s |-> sign, m |-> mantissa, e |-> exponent]           *)
(* whose value is (-1)^s * m * 2^e, or k = "inf" (signed), or k = "nan".   *)
(* The mantissa is a natural number written as a little-endian sequence of *)
(* 15-bit limbs without a leading zero limb, so that its 53 bits do not    *)
(* depend on the width of the integers of the checker.  A "num" is kept    *)
(* canonical: the mantissa is odd, or it is <<>> (zero) with exponent 0.   *)
(* The operators                                                           *)
(* FAdd, FMul, FDiv compute the exact result and round it to nearest, ties *)
(* to even, with gradual underflow and overflow to Infinity.               *)
(***************************************************************************)
EXTENDS Integers, Sequences, FiniteSets, TLC

\* ------------------------------------------------------------------------
\* binary64 format
\* ------------------------------------------------------------------------
\* number of significant bits of a binary64 mantissa
Precision == 53
\* exponent of the least significant bit of the smallest subnormal
EMin == 0 - 1074
\* exponent of the most significant bit of the largest finite value
EMax == 1023

\* ------------------------------------------------------------------------
\* naturals as little-endian sequences of 15-bit limbs, top limb nonzero
\* ------------------------------------------------------------------------
LimbBits == 15
Base == 32768

Pow2(r) == 2 ^ r

\* the largest element of a nonempty set of integers
MaxOf(S) == CHOOSE x \in S : \A y \in S : y <= x

BNorm(a) ==
  LET nz == {i \in 1..Len(a) : a[i] # 0}
  IN  IF nz = {} THEN <<>> ELSE SubSeq(a, 1, MaxOf(nz))

RECURSIVE BFromNat(_)
BFromNat(n) == IF n = 0 THEN <<>> ELSE <<n % Base>> \o BFromNat(n \div Base)

\* number of bits of a limb x >= 1, and of a natural
BitLenLimb(x) == Cardinality({i \in 0..(LimbBits - 1) : Pow2(i) <= x})
BitLen(a) ==
  IF a = <<>> THEN 0 ELSE LimbBits * (Len(a) - 1) + BitLenLimb(a[Len(a)])

RECURSIVE BAddC(_, _, _)
\* a + b + c, c a carry
BAddC(a, b, c) ==
  IF b = <<>> /\ c = 0 THEN a
  ELSE IF a = <<>> /\ c = 0 THEN b
  ELSE LET x == IF a = <<>> THEN 0 ELSE a[1]
           y == IF b = <<>> THEN 0 ELSE b[1]
           t == x + y + c
       IN  <<t % Base>> \o BAddC(IF a = <<>> THEN a ELSE Tail(a),
                                 IF b = <<>> THEN b ELSE Tail(b), t \div Base)

BAdd(a, b) == BAddC(a, b, 0)

RECURSIVE BSubC(_, _, _)
\* a - b - c for a >= b + c, c a borrow; the result may end in zero limbs
BSubC(a, b, c) ==
  IF b = <<>> /\ c = 0 THEN a
  ELSE LET y == IF b = <<>> THEN 0 ELSE b[1]
           t == a[1] - y - c
       IN  <<t % Base>> \o BSubC(Tail(a), IF b = <<>> THEN b ELSE Tail(b),
                                 IF t < 0 THEN 1 ELSE 0)

BSub(a, b) == BNorm(BSubC(a, b, 0))

\* -1, 0 or 1 as a < b, a = b or a > b
BCmp(a, b) ==
  IF Len(a) # Len(b) THEN (IF Len(a) > Len(b) THEN 1 ELSE 0 - 1)
  ELSE LET df == {i \in 1..Len(a) : a[i] # b[i]}
       IN  IF df = {} THEN 0
           ELSE IF a[MaxOf(df)] > b[MaxOf(df)] THEN 1 ELSE 0 - 1

RECURSIVE BMulSmall(_, _, _)
\* a * d + c for a limb d >= 1 and a carry c
BMulSmall(a, d, c) ==
  IF a = <<>> THEN (IF c = 0 THEN <<>> ELSE <<c>>)
  ELSE LET t == a[1] * d + c
       IN  <<t % Base>> \o BMulSmall(Tail(a), d, t \div Base)

\* a * 2^n
BShl(a, n) ==
  IF a = <<>> THEN <<>>
  ELSE [i \in 1..(n \div LimbBits) |-> 0] \o BMulSmall(a, Pow2(n % LimbBits), 0)

\* floor(a / 2^n)
BShr(a, n) ==
  LET q == n \div LimbBits
      r == n % LimbBits
  IN  IF q >= Len(a) THEN <<>>
      ELSE LET hi == SubSeq(a, q + 1, Len(a))
           IN  BNorm([i \in 1..Len(hi) |->
                        (hi[i] \div Pow2(r))
                        + (IF i < Len(hi)
                           THEN (hi[i + 1] % Pow2(r)) * Pow2(LimbBits - r)
                           ELSE 0)])

\* a mod 2^n
BLow(a, n) ==
  LET q == n \div LimbBits
      r == n % LimbBits
  IN  IF q >= Len(a) THEN a
      ELSE BNorm(SubSeq(a, 1, q) \o <<a[q + 1] % Pow2(r)>>)

RECURSIVE BMul(_, _)
BMul(a, b) ==
  IF a = <<>> \/ b = <<>> THEN <<>>
  ELSE LET r == BMul(Tail(a), b)
           hi == IF r = <<>> THEN <<>> ELSE <<0>> \o r
       IN  IF a[1] = 0 THEN hi ELSE BAdd(BMulSmall(b, a[1], 0), hi)

\* the largest limb c with c * d <= r, for r < Base * d and a divisor d whose
\* top limb has its top bit set: at most 2 below the quotient of the two top
\* limbs of r by the top limb of d
QDigit(r, d) ==
  LET t == Len(d)
      hi == (IF Len(r) > t THEN r[t + 1] ELSE 0) * Base
            + (IF Len(r) >= t THEN r[t] ELSE 0)
      est == hi \div d[t]
      top == IF est > Base - 1 THEN Base - 1 ELSE est
      low == IF top > 2 THEN top - 2 ELSE 0
  IN  MaxOf({c \in low..top : c = 0 \/ BCmp(BMulSmall(d, c, 0), r) <= 0})

RECURSIVE BDivAt(_, _, _, _, _)
\* long division of the limbs i..1 of n by d, with remainder r and quotient q
\* of the limbs above i
BDivAt(n, d, i, r, q) ==
  IF i = 0 THEN [q |-> BNorm(q), r |-> r]
  ELSE LET r1 == BNorm(<<n[i]>> \o r)
           c == QDigit(r1, d)
       IN  IF c = 0 THEN BDivAt(n, d, i - 1, r1, <<0>> \o q)
           ELSE BDivAt(n, d, i - 1, BSub(r1, BMulSmall(d, c, 0)), <<c>> \o q)

\* quotient and remainder of n by d, d # 0: both are first scaled to set the
\* top bit of the top limb of d
BDivMod(n, d) ==
  LET sc == LimbBits - BitLenLimb(d[Len(d)])
      qr == BDivAt(BShl(n, sc), BShl(d, sc), Len(BShl(n, sc)), <<>>, <<>>)
  IN  [q |-> qr.q, r |-> BShr(qr.r, sc)]

\* ------------------------------------------------------------------------
\* binary64 values
\* ------------------------------------------------------------------------
NaN == [k |-> "nan", s |-> 0, m |-> <<>>, e |-> 0]
Inf(s) == [k |-> "inf", s |-> s, m |-> <<>>, e |-> 0]
Zero(s) == [k |-> "num", s |-> s, m |-> <<>>, e |-> 0]

IsZero(a) == a.k = "num" /\ a.m = <<>>

\* number of zero bits below the lowest one bit of m, m # 0
TrailingZeros(m) ==
  LET j == CHOOSE i \in 1..Len(m) : m[i] # 0 /\ \A h \in 1..(i - 1) : m[h] = 0
  IN  LimbBits * (j - 1)
      + Cardinality({i \in 1..LimbBits : m[j] % Pow2(i) = 0})

\* the canonical record of (-1)^s * m * 2^e, m # 0
Canon(s, m, e) ==
  LET z == TrailingZeros(m)
  IN  [k |-> "num", s |-> s, m |-> IF z = 0 THEN m ELSE BShr(m, z), e |-> e + z]

\* the value (-1)^s * m * 2^e, which needs no rounding, or Infinity
Pack(s, m, e) ==
  IF m = <<>> THEN Zero(s)
  ELSE IF e + BitLen(m) - 1 > EMax THEN Inf(s)
  ELSE Canon(s, m, e)

\* (-1)^s * m * 2^e rounded to binary64: to nearest, ties to even
Round(s, m, e) ==
  IF m = <<>> THEN Zero(s)
  ELSE LET L == BitLen(m)
           d1 == IF L - Precision > EMin - e THEN L - Precision ELSE EMin - e
           drop == IF d1 > 0 THEN d1 ELSE 0
       IN  IF drop = 0 THEN Pack(s, m, e)
           ELSE LET kept == BShr(m, drop)
                    c == BCmp(BLow(m, drop), BShl(<<1>>, drop - 1))
                    odd == kept # <<>> /\ kept[1] % 2 = 1
                    up == c > 0 \/ (c = 0 /\ odd)
                IN  Pack(s, IF up THEN BAddC(kept, <<>>, 1) ELSE kept, e + drop)

\* the Number of an integer literal
F(n) == IF n < 0 THEN Pack(1, BFromNat(0 - n), 0) ELSE Pack(0, BFromNat(n), 0)

\* the Number n * 2^x
FScale(n, x) == LET f == F(n) IN IF IsZero(f) THEN f ELSE Round(f.s, f.m, f.e + x)

\* for a nonzero finite a, the exponent t with 2^(t-1) <= |a| < 2^t
TopBit(a) == a.e + BitLen(a.m)

\* -1, 0 or 1: order of the magnitudes of two nonzero finite values
CmpMag(a, b) ==
  LET ta == TopBit(a)
      tb == TopBit(b)
      e == IF a.e < b.e THEN a.e ELSE b.e
  IN  IF ta # tb THEN (IF ta > tb THEN 1 ELSE 0 - 1)
      ELSE BCmp(BShl(a.m, a.e - e), BShl(b.m, b.e - e))

\* a < b  (false when either is NaN)
FLt(a, b) ==
  IF a.k = "nan" \/ b.k = "nan" THEN FALSE
  ELSE IF IsZero(a) /\ IsZero(b) THEN FALSE
  ELSE IF IsZero(a) THEN b.s = 0
  ELSE IF IsZero(b) THEN a.s = 1
  ELSE IF a.s # b.s THEN a.s = 1
  ELSE IF a.k = "inf" \/ b.k = "inf"
       THEN (IF a.s = 0 THEN a.k = "num" /\ b.k = "inf"
                        ELSE a.k = "inf" /\ b.k = "num")
  ELSE IF a.s = 0 THEN CmpMag(a, b) < 0 ELSE CmpMag(a, b) > 0

\* a === b on Numbers  (false when either is NaN, true for 0 and -0)
FEq(a, b) ==
  IF a.k = "nan" \/ b.k = "nan" THEN FALSE
  ELSE IF IsZero(a) /\ IsZero(b) THEN TRUE
  ELSE a = b

\* a <= b  (false when either is NaN)
FLe(a, b) == FLt(a, b) \/ FEq(a, b)

\* a + b; an operand below a quarter of the last mantissa bit of the other
\* one does not change it, otherwise the exact sum is rounded
FAdd(a, b) ==
  IF a.k = "nan" \/ b.k = "nan" THEN NaN
  ELSE IF a.k = "inf" /\ b.k = "inf" THEN (IF a.s = b.s THEN a ELSE NaN)
  ELSE IF a.k = "inf" THEN a
  ELSE IF b.k = "inf" THEN b
  ELSE IF IsZero(a) /\ IsZero(b) THEN Zero(IF a.s = 1 /\ b.s = 1 THEN 1 ELSE 0)
  ELSE IF IsZero(a) THEN b
  ELSE IF IsZero(b) THEN a
  ELSE IF TopBit(a) - TopBit(b) > Precision + 2 THEN a
  ELSE IF TopBit(b) - TopBit(a) > Precision + 2 THEN b
  ELSE LET e == IF a.e < b.e THEN a.e ELSE b.e
           x == BShl(a.m, a.e - e)
           y == BShl(b.m, b.e - e)
           c == BCmp(x, y)
       IN  IF a.s = b.s THEN Round(a.s, BAdd(x, y), e)
           ELSE IF c = 0 THEN Zero(0)
           ELSE IF c > 0 THEN Round(a.s, BSub(x, y), e)
           ELSE Round(b.s, BSub(y, x), e)

\* a * b
FMul(a, b) ==
  LET s == (a.s + b.s) % 2
  IN  IF a.k = "nan" \/ b.k = "nan" THEN NaN
      ELSE IF a.k = "inf" \/ b.k = "inf"
           THEN (IF IsZero(a) \/ IsZero(b) THEN NaN ELSE Inf(s))
      ELSE IF IsZero(a) \/ IsZero(b) THEN Zero(s)
      ELSE Round(s, BMul(a.m, b.m), a.e + b.e)

\* a / b
FDiv(a, b) ==
  LET s == (a.s + b.s) % 2
  IN  IF a.k = "nan" \/ b.k = "nan" THEN NaN
      ELSE IF a.k = "inf" THEN (IF b.k = "inf" THEN NaN ELSE Inf(s))
      ELSE IF b.k = "inf" THEN Zero(s)
      ELSE IF IsZero(b) THEN (IF IsZero(a) THEN NaN ELSE Inf(s))
      ELSE IF IsZero(a) THEN Zero(s)
      ELSE LET g == Precision + 2 + BitLen(b.m) - BitLen(a.m)
               sh == IF g > 0 THEN g ELSE 0
               qr == BDivMod(BShl(a.m, sh), b.m)
               q1 == BAddC(BShl(qr.q, 1), <<>>, IF qr.r = <<>> THEN 0 ELSE 1)
           IN  Round(s, q1, a.e - b.e - sh - 1)

\* ------------------------------------------------------------------------
\* simulateHeatTransfer
\* ------------------------------------------------------------------------
VARIABLES
  mass, specificHeat, initialTemperature, targetTemperature,
  numCollectors, collectorPower, timeStep,   \* the parameters of the call
  currentTemperature, totalTime,             \* the locals declared with let
  totalPowerOutput,                          \* const, set once per call
  temperatureIncrease,                       \* const of the latest iteration
  pc,            \* "loop": at the while test; "break": the guard has fired;
                 \* "done": the function has returned totalTime
  iterations,    \* number of executions of the loop body in this call
  prev           \* the call made before this one, or NoCall

params == <<mass, specificHeat, initialTemperature, targetTemperature,
            numCollectors, collectorPower, timeStep>>
vars == <<mass, specificHeat, initialTemperature, targetTemperature,
          numCollectors, collectorPower, timeStep, currentTemperature,
          totalTime, totalPowerOutput, temperatureIncrease, pc, iterations,
          prev>>

\* most loop iterations followed in one call
MaxIter == 300

\* the scenario of the script: the constants and the call at its top level
Reference ==
  [mass |-> F(10000), specificHeat |-> F(4186),
   initialTemperature |-> F(20), targetTemperature |-> F(60),
   numCollectors |-> F(25), collectorPower |-> F(4), timeStep |-> F(60)]

\* 0.1, the Number of the literal
Tenth == FDiv(F(1), F(10))

\* the arguments of the calls followed besides the reference scenario
Masses == {F(0), F(10000), F(0 - 10000), FScale(1, 70), FScale(1, 0 - 600)}
SpecificHeats == {F(0), F(1), FScale(1, 0 - 600)}
InitialTemperatures == {F(0), F(20)}
TargetTemperatures == {F(0), F(1), F(21)}
CollectorCounts == {F(0), F(1), F(2), F(0 - 1)}
CollectorPowers == {F(0), F(1), F(3)}
TimeSteps == {F(0), F(1), Tenth, F(0 - 1)}

Scenarios ==
  [mass : Masses, specificHeat : SpecificHeats,
   initialTemperature : InitialTemperatures,
   targetTemperature : TargetTemperatures,
   numCollectors : CollectorCounts, collectorPower : CollectorPowers,
   timeStep : TimeSteps] \cup {Reference}

NoCall == [made |-> FALSE]
NoValue == [k |-> "none"]

\* the total power left in kilowatts
TotalPowerOutputKilowatts(n, p) == FMul(n, p)

\* numCollectors * collectorPower * 1000
TotalPowerOutput(n, p) == FMul(FMul(n, p), F(1000))

\* totalPowerOutput * timeStep
EnergyTransferred(power, dt) == FMul(power, dt)

\* energyTransferred / (mass * specificHeat)
TemperatureIncrease(energy, m, c) == FDiv(energy, FMul(m, c))

\* the test currentTemperature <= targetTemperature
LoopConditionAtMost(cur, target) == FLe(cur, target)

\* the test !(currentTemperature >= targetTemperature)
LoopConditionNotReached(cur, target) == ~FLe(target, cur)

\* the while condition: currentTemperature < targetTemperature
LoopCondition(cur, target) == FLt(cur, target)

\* the check temperatureIncrease < 0
GuardNegativeOnly(dT) == FLt(dT, F(0))

\* the check temperatureIncrease === 0
GuardZeroOnly(dT) == FEq(dT, F(0))

\* the safety check: temperatureIncrease <= 0
Guard(dT) == FLe(dT, F(0))

\* the state of a call after the declarations of its locals
Enter ==
  /\ currentTemperature = initialTemperature
  /\ totalTime = F(0)
  /\ totalPowerOutput = TotalPowerOutput(numCollectors, collectorPower)
  /\ temperatureIncrease = NoValue
  /\ pc = "loop"
  /\ iterations = 0

Init ==
  /\ \E a \in Scenarios :
       /\ mass = a.mass
       /\ specificHeat = a.specificHeat
       /\ initialTemperature = a.initialTemperature
       /\ targetTemperature = a.targetTemperature
       /\ numCollectors = a.numCollectors
       /\ collectorPower = a.collectorPower
       /\ timeStep = a.timeStep
  /\ Enter
  /\ prev = NoCall

\* one execution of the loop body, after the while test has passed
Iterate ==
  /\ pc = "loop"
  /\ LoopCondition(currentTemperature, targetTemperature)
  /\ iterations < MaxIter
  /\ LET energyTransferred == EnergyTransferred(totalPowerOutput, timeStep)
         dT == TemperatureIncrease(energyTransferred, mass, specificHeat)
     IN  /\ temperatureIncrease' = dT
         /\ currentTemperature' = FAdd(currentTemperature, dT)
         /\ totalTime' = FAdd(totalTime, timeStep)
         /\ pc' = IF Guard(dT) THEN "break" ELSE "loop"
  /\ iterations' = iterations + 1
  /\ UNCHANGED <<params, totalPowerOutput, prev>>

\* the loop is left, by its test or by the break, and totalTime is returned
Return ==
  /\ \/ pc = "loop" /\ ~LoopCondition(currentTemperature, targetTemperature)
     \/ pc = "break"
  /\ pc' = "done"
  /\ UNCHANGED <<params, currentTemperature, totalTime, totalPowerOutput,
                 temperatureIncrease, iterations, prev>>

\* after a first call has returned, a second call whose arguments differ only
\* in a larger numCollectors or a larger collectorPower
CallAgain ==
  /\ pc = "done"
  /\ prev = NoCall
  /\ \E n \in CollectorCounts, p \in CollectorPowers :
       /\ \/ FLt(numCollectors, n) /\ p = collectorPower
          \/ FLt(collectorPower, p) /\ n = numCollectors
       /\ numCollectors' = n
       /\ collectorPower' = p
       /\ totalPowerOutput' = TotalPowerOutput(n, p)
  /\ prev' = [made |-> TRUE, numCollectors |-> numCollectors,
              collectorPower |-> collectorPower, returned |-> totalTime,
              iterations |-> iterations]
  /\ currentTemperature' = initialTemperature
  /\ totalTime' = F(0)
  /\ temperatureIncrease' = NoValue
  /\ pc' = "loop"
  /\ iterations' = 0
  /\ UNCHANGED <<mass, specificHeat, initialTemperature, targetTemperature,
                 timeStep>>

Next == Iterate \/ Return \/ CallAgain

Spec == Init /\ [][Next]_vars

\* ------------------------------------------------------------------------
\* exact arithmetic on finite Numbers, for the statements below: the results
\* are canonical records whose mantissa may be wider than 53 bits
\* ------------------------------------------------------------------------
Positive(a) == FLt(F(0), a)
Negative(a) == FLt(a, F(0))
Finite(a) == a.k = "num"

FNeg(a) == IF a.k = "nan" THEN a ELSE [a EXCEPT !.s = 1 - a.s]

XMul(a, b) ==
  IF IsZero(a) \/ IsZero(b) THEN Zero(0)
  ELSE Canon((a.s + b.s) % 2, BMul(a.m, b.m), a.e + b.e)

XAdd(a, b) ==
  IF IsZero(a) THEN (IF IsZero(b) THEN Zero(0) ELSE b)
  ELSE IF IsZero(b) THEN a
  ELSE LET e == IF a.e < b.e THEN a.e ELSE b.e
           u == BShl(a.m, a.e - e)
           v == BShl(b.m, b.e - e)
           c == BCmp(u, v)
       IN  IF a.s = b.s THEN Canon(a.s, BAdd(u, v), e)
           ELSE IF c = 0 THEN Zero(0)
           ELSE IF c > 0 THEN Canon(a.s, BSub(u, v), e)
           ELSE Canon(b.s, BSub(v, u), e)

XEq(a, b) == (IsZero(a) /\ IsZero(b)) \/ a = b

\* the natural ceil(a / b) for exact a > 0 and b > 0
CeilQuot(a, b) ==
  LET e == IF a.e < b.e THEN a.e ELSE b.e
      qr == BDivMod(BShl(a.m, a.e - e), BShl(b.m, b.e - e))
  IN  IF qr.r = <<>> THEN qr.q ELSE BAddC(qr.q, <<>>, 1)

\* Math.ceil of a positive finite Number
FCeil(a) ==
  IF a.e >= 0 THEN a ELSE Pack(0, BAddC(BShr(a.m, 0 - a.e), <<>>, 1), 0)

\* k * a in exact arithmetic, for a natural k and a finite a
Multiple(k, a) == XMul(F(k), a)

\* the quantities of the statements, from the arguments of the call
PowerOfCall == TotalPowerOutput(numCollectors, collectorPower)
DeltaTOfCall ==
  TemperatureIncrease(EnergyTransferred(PowerOfCall, timeStep),
                      mass, specificHeat)
\* numerator and denominator of deltaT in exact arithmetic
ExactEnergy == XMul(XMul(XMul(numCollectors, collectorPower), F(1000)), timeStep)
ExactCapacity == XMul(mass, specificHeat)

\* ------------------------------------------------------------------------
\* C1
\* ------------------------------------------------------------------------
C1_Pre ==
  /\ Positive(mass) /\ Positive(specificHeat) /\ Positive(timeStep)
  /\ Positive(PowerOfCall)
  /\ FLt(initialTemperature, targetTemperature)

\* ceil((targetTemperature - initialTemperature) / deltaT) in exact arithmetic
C1_ExactSteps ==
  CeilQuot(XMul(XAdd(targetTemperature, FNeg(initialTemperature)), ExactCapacity),
           ExactEnergy)

\* Math.ceil((targetTemperature - initialTemperature) / deltaT) as evaluated
\* on Numbers
C1_NumberSteps ==
  FCeil(FDiv(FAdd(targetTemperature, FNeg(initialTemperature)), DeltaTOfCall))

\* C1: a call with mass, specificHeat, timeStep and total power output > 0 and
\* targetTemperature > initialTemperature returns after
\* ceil((targetTemperature - initialTemperature) / deltaT) iterations, the
\* ceiling taken in exact arithmetic or as the Numbers give it, and returns
\* that count times timeStep.
C1_StepsAreCeiling ==
  (pc = "done" /\ C1_Pre) =>
    /\ \/ BFromNat(iterations) = C1_ExactSteps
       \/ FEq(F(iterations), C1_NumberSteps)
    /\ \/ XEq(totalTime, Multiple(iterations, timeStep))
       \/ FEq(totalTime, FMul(F(iterations), timeStep))

\* ------------------------------------------------------------------------
\* C2
\* ------------------------------------------------------------------------
AtReference ==
  /\ mass = Reference.mass
  /\ specificHeat = Reference.specificHeat
  /\ initialTemperature = Reference.initialTemperature
  /\ targetTemperature = Reference.targetTemperature
  /\ numCollectors = Reference.numCollectors
  /\ collectorPower = Reference.collectorPower
  /\ timeStep = Reference.timeStep

\* C2 as stated: the reference scenario returns after 279 iterations, with
\* 16740 seconds.
C2_Returns16740 ==
  (AtReference /\ pc = "done") =>
    iterations = 279 /\ FEq(totalTime, F(16740))

\* C2 as amended: the reference scenario adds 6000000 / 41860000 degrees in
\* each iteration, executes exactly 280 iterations and returns 16800 seconds.
C2_Returns16800 ==
  AtReference =>
    /\ iterations <= 280
    /\ pc = "loop" /\ iterations < 280 =>
         LoopCondition(currentTemperature, targetTemperature)
    /\ pc # "break"
    /\ iterations > 0 =>
         temperatureIncrease = FDiv(F(6000000), F(41860000))
    /\ pc = "done" => iterations = 280 /\ FEq(totalTime, F(16800))

C2_Witness == AtReference /\ pc = "done" /\ iterations = 280

\* ------------------------------------------------------------------------
\* C3
\* ------------------------------------------------------------------------
\* C3: when targetTemperature <= initialTemperature, whatever the other
\* arguments, the loop body is never executed, the loop test fails at once
\* and the value returned is exactly 0.
C3_NoIterationAtOrAboveTarget ==
  FLe(targetTemperature, initialTemperature) =>
    /\ iterations = 0
    /\ pc \in {"loop", "done"}
    /\ pc = "loop" => ~LoopCondition(currentTemperature, targetTemperature)
    /\ totalTime = Zero(0)

C3_Witness ==
  /\ pc = "done"
  /\ FEq(targetTemperature, initialTemperature)
  /\ IsZero(mass)
  /\ Negative(numCollectors)
  /\ Negative(timeStep)
  /\ totalTime = Zero(0)

\* ------------------------------------------------------------------------
\* C4
\* ------------------------------------------------------------------------
C4_Pre ==
  /\ IsZero(numCollectors) \/ IsZero(collectorPower)
  /\ Positive(mass) /\ Positive(specificHeat)
  /\ FLt(initialTemperature, targetTemperature)

\* C4 as stated: with no power output, mass > 0, specificHeat > 0 and
\* targetTemperature > initialTemperature, the guard fires in the first
\* iteration, which is the only one, and timeStep is returned.
C4_GuardFiresFirst ==
  C4_Pre =>
    /\ iterations <= 1
    /\ iterations = 1 =>
         /\ pc \in {"break", "done"}
         /\ Guard(temperatureIncrease)
         /\ FEq(totalTime, timeStep)

\* C4 as amended: exactly one iteration is executed and timeStep is
\* returned; the loop is ended by the guard, except that when
\* mass * specificHeat underflows to 0 the increase 0 / 0 is NaN, which the
\* guard lets pass, and the loop test ends the loop.
C4_OneIteration ==
  C4_Pre =>
    /\ iterations <= 1
    /\ iterations = 1 =>
         /\ FEq(totalTime, timeStep)
         /\ IF IsZero(FMul(mass, specificHeat))
            THEN /\ temperatureIncrease = NaN
                 /\ pc \in {"loop", "done"}
                 /\ ~LoopCondition(currentTemperature, targetTemperature)
            ELSE /\ pc \in {"break", "done"}
                 /\ IsZero(temperatureIncrease)

C4_Witness ==
  /\ C4_Pre
  /\ pc = "done"
  /\ iterations = 1
  /\ IsZero(temperatureIncrease)
  /\ Positive(timeStep)
  /\ FEq(totalTime, timeStep)

\* ------------------------------------------------------------------------
\* C5
\* ------------------------------------------------------------------------
\* C5: of two calls with mass, specificHeat and timeStep > 0 that differ only
\* in a larger numCollectors or collectorPower (both >= 0 in the first call),
\* the second returns no more than the first.
C5_MorePowerNoMoreTime ==
  ( /\ pc = "done" /\ prev # NoCall
    /\ Positive(mass) /\ Positive(specificHeat) /\ Positive(timeStep)
    /\ FLe(F(0), prev.numCollectors) /\ FLe(F(0), prev.collectorPower) )
  => FLe(totalTime, prev.returned)

\* ------------------------------------------------------------------------
\* C6
\* ------------------------------------------------------------------------
\* C6 as stated: no loop iteration lowers currentTemperature (read here for
\* the iterations whose increase is finite).
C6_NeverLowered ==
  [][(iterations' = iterations + 1 /\ Finite(temperatureIncrease')) =>
       ~FLt(currentTemperature', currentTemperature)]_vars

\* C6 as amended: an iteration lowers currentTemperature only when its
\* increase is negative, and then it is the first iteration of the call and
\* the guard ends the loop in it: the guard is tested after the update.
C6_LoweredOnceAtMost ==
  [][(iterations' = iterations + 1
      /\ FLt(currentTemperature', currentTemperature)) =>
       /\ Negative(temperatureIncrease')
       /\ iterations = 0
       /\ pc' = "break"]_vars

C6_Witness ==
  /\ pc = "break"
  /\ iterations = 1
  /\ Negative(temperatureIncrease)
  /\ FLt(currentTemperature, initialTemperature)

\* ------------------------------------------------------------------------
\* C7
\* ------------------------------------------------------------------------
\* C7: with timeStep > 0, totalTime is always timeStep times the number of
\* iterations completed, in exact arithmetic or as the Numbers give the
\* product.
C7_TimeIsMultiple ==
  Positive(timeStep) =>
    \/ XEq(totalTime, Multiple(iterations, timeStep))
    \/ FEq(totalTime, FMul(F(iterations), timeStep))

\* ------------------------------------------------------------------------
\* C8
\* ------------------------------------------------------------------------
\* C8: with mass * specificHeat nonzero the loop stops.  The loop test reads
\* currentTemperature alone and the increase is the same in every iteration,
\* so the loop can stop only if every iteration after which the loop goes on
\* has raised currentTemperature; and with an increase <= 0 the guard ends
\* the loop in the first iteration.
C8_LoopStops ==
  [][(iterations' = iterations + 1
      /\ ~IsZero(FMul(mass, specificHeat))) =>
       /\ Guard(temperatureIncrease') => pc' = "break" /\ iterations = 0
       /\ (pc' = "loop"
           /\ LoopCondition(currentTemperature', targetTemperature)) =>
            FLt(currentTemperature, currentTemperature')]_vars

\* ------------------------------------------------------------------------
\* C9
\* ------------------------------------------------------------------------
C9_Pre ==
  /\ IsZero(mass) \/ IsZero(specificHeat)
  /\ FLt(initialTemperature, targetTemperature)

\* C9 as stated: with mass = 0 or specificHeat = 0 and
\* targetTemperature > initialTemperature, once an iteration has computed an
\* increase that the guard does not catch, the loop is never left: the loop
\* test keeps passing.
C9_NeverLeavesLoop ==
  (C9_Pre /\ iterations > 0 /\ ~Guard(temperatureIncrease)) =>
    pc = "loop" /\ LoopCondition(currentTemperature, targetTemperature)

\* C9 as amended: the increase is not finite (Infinity, -Infinity or NaN),
\* the guard catches only -Infinity, and the loop still ends after exactly
\* one iteration: a currentTemperature of Infinity or NaN fails the loop
\* test.  The value returned is timeStep.
C9_OneIteration ==
  C9_Pre =>
    /\ iterations <= 1
    /\ iterations = 1 =>
         /\ ~Finite(temperatureIncrease)
         /\ Guard(temperatureIncrease) <=> temperatureIncrease = Inf(1)
         /\ pc = "loop" =>
              ~LoopCondition(currentTemperature, targetTemperature)
         /\ FEq(totalTime, timeStep)
    /\ pc = "done" => iterations = 1

C9_Witness ==
  /\ C9_Pre
  /\ pc = "done"
  /\ iterations = 1
  /\ temperatureIncrease = NaN
  /\ FEq(totalTime, timeStep)

\* ------------------------------------------------------------------------
\* C10
\* ------------------------------------------------------------------------
\* C10: with mass * specificHeat nonzero, after k iterations
\* currentTemperature = initialTemperature + k * deltaT and
\* totalTime = k * timeStep, in exact arithmetic or as the Numbers give the
\* expressions, with deltaT the value computed from the arguments.
C10_LockStep ==
  (~IsZero(FMul(mass, specificHeat)) /\ iterations > 0) =>
    /\ temperatureIncrease = DeltaTOfCall
    /\ \/ /\ Finite(currentTemperature)
          /\ XEq(XMul(currentTemperature, ExactCapacity),
                 XAdd(XMul(initialTemperature, ExactCapacity),
                      Multiple(iterations, ExactEnergy)))
       \/ FEq(currentTemperature,
              FAdd(initialTemperature, FMul(F(iterations), DeltaTOfCall)))
    /\ \/ XEq(totalTime, Multiple(iterations, timeStep))
       \/ FEq(totalTime, FMul(F(iterations), timeStep))

====
